---- MODULE Spec2Model ----
(***************************************************************************)
(* A model of classroom/student/student.py: the Student object, its       *)
(* snapshot stack (push / pop), clone, study and mutate.                   *)
(*                                                                         *)
(* Python objects live in heaps (sequences indexed by object identity);    *)
(* a reference is an index into a heap and None is the index 0.  Floats    *)
(* are exact rationals extended with nan, +inf and -inf.                   *)
(***************************************************************************)
EXTENDS Integers, Sequences, FiniteSets, TLC

(***************************************************************************)
(* Bounds of the model.                                                    *)
(***************************************************************************)
\* Calls made on Students in one run.
MaxCalls == 5
\* mutate() calls among them.
MaxMutations == 1
\* study(), clone() and push() calls among them that raise.
MaxRaised == 1

\* What one study() call meets, as explored: the wall-clock time it takes,
\* in clock ticks, and the batch dataset.batch() returns.
StudyInputs == {[elapsed |-> 1, batch |-> 1], [elapsed |-> 2, batch |-> 2]}
\* The optimizer's possible step counts: a learning-rate schedule is a
\* function on these.
Steps == 0 .. MaxCalls

None == 0

(***************************************************************************)
(* Floats: [k, n, d] is the rational n/d (d > 0, lowest terms) when        *)
(* k = "fin", and nan / +inf / -inf otherwise.                             *)
(***************************************************************************)
Abs(x) == IF x < 0 THEN -x ELSE x

RECURSIVE GCD(_, _)
GCD(a, b) == IF b = 0 THEN a ELSE GCD(b, a % b)

Q(n, d) ==
    LET g == GCD(Abs(n), Abs(d))
        s == IF d < 0 THEN -1 ELSE 1
    IN  [k |-> "fin", n |-> s * (n \div g), d |-> s * (d \div g)]

NaN == [k |-> "nan", n |-> 0, d |-> 1]
PInf == [k |-> "pinf", n |-> 0, d |-> 1]
NInf == [k |-> "ninf", n |-> 0, d |-> 1]

IsFinite(x) == x.k = "fin"
Sign(x) == CASE x.k = "pinf" -> 1
             [] x.k = "ninf" -> -1
             [] x.k = "nan" -> 0
             [] OTHER -> IF x.n > 0 THEN 1 ELSE IF x.n < 0 THEN -1 ELSE 0

Neg(x) == CASE x.k = "pinf" -> NInf
            [] x.k = "ninf" -> PInf
            [] x.k = "nan" -> NaN
            [] OTHER -> Q(-x.n, x.d)

\* x + y
FAdd(x, y) ==
    IF x.k = "nan" \/ y.k = "nan" THEN NaN
    ELSE IF IsFinite(x) /\ IsFinite(y)
    THEN LET g == GCD(x.d, y.d)
         IN  Q(x.n * (y.d \div g) + y.n * (x.d \div g), (x.d \div g) * y.d)
    ELSE IF IsFinite(x) THEN y
    ELSE IF IsFinite(y) THEN x
    ELSE IF x.k = y.k THEN x ELSE NaN

\* x - y
FSub(x, y) == FAdd(x, Neg(y))

\* x * y
FMul(x, y) ==
    IF x.k = "nan" \/ y.k = "nan" THEN NaN
    ELSE IF IsFinite(x) /\ IsFinite(y)
    THEN LET g1 == GCD(Abs(x.n), y.d)
             g2 == GCD(Abs(y.n), x.d)
         IN  Q((x.n \div g1) * (y.n \div g2), (x.d \div g2) * (y.d \div g1))
    ELSE IF Sign(x) * Sign(y) = 0 THEN NaN
    ELSE IF Sign(x) * Sign(y) > 0 THEN PInf ELSE NInf

\* x / y, with numpy's results for a zero or non-finite divisor
FDiv(x, y) ==
    IF x.k = "nan" \/ y.k = "nan" THEN NaN
    ELSE IF IsFinite(y) /\ y.n = 0
    THEN (IF Sign(x) = 0 THEN NaN ELSE IF Sign(x) > 0 THEN PInf ELSE NInf)
    ELSE IF IsFinite(y)
    THEN FMul(x, Q(y.d, y.n))
    ELSE IF IsFinite(x) THEN Q(0, 1) ELSE NaN

RECURSIVE FSum(_)
FSum(xs) == IF xs = <<>> THEN Q(0, 1) ELSE FAdd(Head(xs), FSum(Tail(xs)))

\* numpy.mean / torch.mean: nan for an empty vector
FMean(xs) == IF xs = <<>> THEN NaN ELSE FDiv(FSum(xs), Q(Len(xs), 1))

\* int(x) for a finite x >= 0: rounds down
FloorInt(x) == x.n \div x.d

(***************************************************************************)
(* The collaborators: model, optimizer, dataset.                           *)
(***************************************************************************)
\* Per-example losses a model can return (cross-entropy, possibly non-finite).
LossValues == <<Q(3, 10), Q(1, 2), NaN, Q(1, 5), PInf, Q(7, 10)>>

\* model(batch)[i]: the loss of example i of batch b under weights w.  The
\* weights are the training steps applied so far.
Forward(w, b, i) == LossValues[((2 * Len(w) + b + i) % Len(LossValues)) + 1]

\* The parameter update of one optimizer step: weights w trained on batch b
\* at learning rate rate.
Update(w, b, rate) == Append(w, [batch |-> b, lr |-> rate])

\* torch.nan_to_num(losses, nan=0.0, posinf=0.0, neginf=0.0)
NanToNum(x) == IF IsFinite(x) THEN x ELSE Q(0, 1)

\* Learning-rate schedules a Student can be constructed with: one that
\* starts at 0.0 and grows with the step count, and a constant one.
Warmup == [n \in Steps |-> Q(n, 1000)]
Constant == [n \in Steps |-> Q(1, 1000)]

\* The batch_size and learning-rate schedule a Student is constructed with.
InitConfigs == {[batch_size |-> 1, lr |-> Warmup],
                [batch_size |-> 3, lr |-> Constant]}

(***************************************************************************)
(* The state.                                                              *)
(***************************************************************************)
VARIABLES
    students,    \* heap of Student objects
    models,      \* heap of model objects: [w: weights]
    optimizers,  \* heap of optimizers: [params: model, lr: schedule, n: steps,
                 \*   lr_is_lambda: the schedule is mutate()'s lambda]
    datasets,    \* heap of dataset objects
    lists,       \* heap of list objects (times, grades, ...)
    roots,       \* the Students the caller holds
    disk,        \* the file at the path save() and load() are called with
    lastOp,      \* history: the call that produced the state
    phase,       \* history: per root, where it is in push .. pop
    lastPush,    \* history: per root, its value at its latest push()
    prevPush,    \* history: per root, its value at the push() before that
    mutations,   \* history: mutate() calls so far
    raised,      \* history: study(), clone(), push() calls that raised
    completion,  \* history: what the latest call did, if it was autocomplete()
    calls        \* history: calls so far

heapVars == <<students, models, optimizers, datasets, lists>>
histVars == <<lastOp, phase, lastPush, prevPush, mutations, raised,
              completion, calls>>
vars == <<students, models, optimizers, datasets, lists, roots, disk,
          lastOp, phase, lastPush, prevPush, mutations, raised,
          completion, calls>>

\* The heaps as one value, so that a method calling another composes.
Heap == [students |-> students, models |-> models, optimizers |-> optimizers,
         datasets |-> datasets, lists |-> lists]

\* Student.__init__
NewStudent(model, optimizer, dataset, batch_size, example_length, l) ==
    [model |-> model, optimizer |-> optimizer, dataset |-> dataset,
     batch_size |-> batch_size, example_length |-> example_length,
     time |-> Q(0, 1), times |-> l + 1, grades |-> l + 2,
     parent |-> None,
     baseline |-> None, baseline_grades |-> l + 3, relative_grades |-> l + 4]

\* No file at the path.
NoFile == [kind |-> "missing"]

\* The latest call was not autocomplete().
NoCompletion == [called |-> FALSE]

\* History of a Student no push() was made on.
NoPush == [set |-> FALSE]

Init ==
    /\ \E cfg \in InitConfigs :
         /\ students = <<NewStudent(1, 1, 1, cfg.batch_size, 8, 0)>>
         /\ optimizers = <<[params |-> 1, lr |-> cfg.lr, n |-> 0,
                            lr_is_lambda |-> FALSE]>>
    /\ models = <<[w |-> <<>>]>>
    /\ datasets = <<[data |-> "bytes"]>>
    /\ lists = <<<<>>, <<>>, <<>>, <<>>>>
    /\ roots = {1}
    /\ disk = NoFile
    /\ lastOp = [op |-> "init", s |-> 1, arg |-> 0]
    /\ phase = [s \in {1} |-> [at |-> "idle", changed |-> FALSE]]
    /\ lastPush = [s \in {1} |-> NoPush]
    /\ prevPush = [s \in {1} |-> NoPush]
    /\ mutations = 0
    /\ raised = 0
    /\ completion = NoCompletion
    /\ calls = 0

(***************************************************************************)
(* Values: the contents of a Student, by which two Students are equal.     *)
(***************************************************************************)
OptimizerValue(h, st) ==
    [lr |-> h.optimizers[st.optimizer].lr,
     n |-> h.optimizers[st.optimizer].n,
     trains_model |-> h.optimizers[st.optimizer].params = st.model]

ValueIn(h, s) ==
    LET st == h.students[s]
    IN  [model |-> h.models[st.model],
         optimizer |-> OptimizerValue(h, st),
         dataset |-> h.datasets[st.dataset],
         batch_size |-> st.batch_size,
         example_length |-> st.example_length,
         time |-> st.time,
         times |-> h.lists[st.times],
         grades |-> h.lists[st.grades],
         baseline_grades |-> h.lists[st.baseline_grades],
         relative_grades |-> h.lists[st.relative_grades]]

Value(s) == ValueIn(Heap, s)

(***************************************************************************)
(* clone                                                                   *)
(***************************************************************************)
\* Faulty variant of DeepCopy: copy.copy, a new Student object that holds
\* the original's model, optimizer, dataset and lists.
ShallowCopy(h, s) ==
    [heap |-> [h EXCEPT !.students = Append(@, h.students[s])],
     ref |-> Len(h.students) + 1]

\* copy.deepcopy(self) for a Student whose parent and baseline are detached:
\* a new Student with new model, optimizer, dataset and list objects of equal
\* contents.  One deepcopy call keeps sharing within the copy: the copied
\* optimizer holds the copied model's parameters.  A learning-rate schedule
\* is a function object, which deepcopy does not duplicate.
DeepCopy(h, s) ==
    LET st == h.students[s]
        c == Len(h.students) + 1
        m == Len(h.models) + 1
        o == Len(h.optimizers) + 1
        d == Len(h.datasets) + 1
        l == Len(h.lists)
        opt == h.optimizers[st.optimizer]
    IN  [heap |->
           [students |-> Append(h.students,
                [st EXCEPT !.model = m, !.optimizer = o, !.dataset = d,
                           !.times = l + 1, !.grades = l + 2,
                           !.baseline_grades = l + 3,
                           !.relative_grades = l + 4]),
            models |-> Append(h.models, h.models[st.model]),
            optimizers |-> Append(h.optimizers,
                [opt EXCEPT !.params =
                    IF opt.params = st.model THEN m ELSE opt.params]),
            datasets |-> Append(h.datasets, h.datasets[st.dataset]),
            lists |-> h.lists \o <<h.lists[st.times], h.lists[st.grades],
                                   h.lists[st.baseline_grades],
                                   h.lists[st.relative_grades]>>],
         ref |-> c]

\* self.parent = p
SetParent(h, s, p) == [h EXCEPT !.students[s].parent = p]

\* self.baseline = m
SetBaseline(h, s, m) == [h EXCEPT !.students[s].baseline = m]

\* Student.clone: the heap after the call and the Student returned.
clone(h, s) ==
    LET tmp1 == h.students[s].parent
        tmp2 == h.students[s].baseline
        h1 == SetBaseline(SetParent(h, s, None), s, None)
        copy == DeepCopy(h1, s)
        h2 == SetParent(SetParent(copy.heap, s, tmp1), copy.ref, tmp1)
        h3 == SetBaseline(SetBaseline(h2, s, tmp2), copy.ref, tmp2)
    IN  [heap |-> h3, ref |-> copy.ref]

\* Student.clone when copy.deepcopy raises (out of memory, an object that
\* cannot be copied): parent and baseline have been detached, and the
\* statements that re-attach them are not reached.
cloneRaises(h, s) == SetBaseline(SetParent(h, s, None), s, None)

(***************************************************************************)
(* push                                                                    *)
(***************************************************************************)
\* Faulty variant of DropSnapshot: push keeps the snapshot it holds, so the
\* new snapshot's clone carries it as its own parent.
KeepSnapshot(h, s) == h

\* self.parent = None, the first statement of push
DropSnapshot(h, s) == SetParent(h, s, None)

\* self.baseline = self.parent.model, the last statement of push
AdoptBaseline(h, s) ==
    SetBaseline(h, s, h.students[h.students[s].parent].model)

\* Student.push
push(h, s) ==
    LET h1 == DropSnapshot(h, s)
        made == clone(h1, s)
    IN  AdoptBaseline(SetParent(made.heap, s, made.ref), s)

\* Student.push when its clone() raises
pushRaises(h, s) == cloneRaises(DropSnapshot(h, s), s)

(***************************************************************************)
(* pop                                                                     *)
(***************************************************************************)
\* lst.clear(); lst.extend(src)
ClearExtend(h, lst, src) ==
    LET cleared == [h EXCEPT !.lists[lst] = <<>>]
    IN  [cleared EXCEPT !.lists[lst] = cleared.lists[lst] \o cleared.lists[src]]

\* Faulty variant of RestoreObjects: batch_size is not restored.
RestoreObjectsKeepsBatchSize(h, s, c) ==
    [h EXCEPT !.students[s].model = h.students[c].model,
              !.students[s].optimizer = h.students[c].optimizer,
              !.students[s].dataset = h.students[c].dataset,
              !.students[s].example_length = h.students[c].example_length]

\* self.model = clone.model .. self.example_length = clone.example_length
RestoreObjects(h, s, c) ==
    [h EXCEPT !.students[s].model = h.students[c].model,
              !.students[s].optimizer = h.students[c].optimizer,
              !.students[s].dataset = h.students[c].dataset,
              !.students[s].batch_size = h.students[c].batch_size,
              !.students[s].example_length = h.students[c].example_length]

\* Faulty variant of RestoreTimes: time is not restored.
RestoreTimesKeepsTime(h, s, c) ==
    LET h2 == ClearExtend(h, h.students[s].times, h.students[c].times)
    IN  ClearExtend(h2, h2.students[s].grades, h2.students[c].grades)

\* Faulty variant of RestoreTimes: times and grades are bound to the
\* clone's lists.
RestoreTimesRebinds(h, s, c) ==
    [h EXCEPT !.students[s].time = h.students[c].time,
              !.students[s].times = h.students[c].times,
              !.students[s].grades = h.students[c].grades]

\* self.time = clone.time; times and grades take the clone's contents
RestoreTimes(h, s, c) ==
    LET h1 == [h EXCEPT !.students[s].time = h.students[c].time]
        h2 == ClearExtend(h1, h1.students[s].times, h1.students[c].times)
    IN  ClearExtend(h2, h2.students[s].grades, h2.students[c].grades)

\* Faulty variant of RestoreBaseline: baseline is not restored.
RestoreBaselineKeepsBaseline(h, s, c) ==
    LET h1 == SetParent(h, s, h.students[c].parent)
        h2 == ClearExtend(h1, h1.students[s].baseline_grades,
                          h1.students[c].baseline_grades)
    IN  ClearExtend(h2, h2.students[s].relative_grades,
                    h2.students[c].relative_grades)

\* Faulty variant of RestoreBaseline: parent is not restored.
RestoreBaselineKeepsParent(h, s, c) ==
    LET h1 == SetBaseline(h, s, h.students[c].baseline)
        h2 == ClearExtend(h1, h1.students[s].baseline_grades,
                          h1.students[c].baseline_grades)
    IN  ClearExtend(h2, h2.students[s].relative_grades,
                    h2.students[c].relative_grades)

\* self.parent = clone.parent; self.baseline = clone.baseline; the baseline
\* and relative grades take the clone's contents
RestoreBaseline(h, s, c) ==
    LET h1 == SetBaseline(SetParent(h, s, h.students[c].parent),
                          s, h.students[c].baseline)
        h2 == ClearExtend(h1, h1.students[s].baseline_grades,
                          h1.students[c].baseline_grades)
    IN  ClearExtend(h2, h2.students[s].relative_grades,
                    h2.students[c].relative_grades)

\* Faulty variant of SnapshotCopy: pop restores from the snapshot itself.
SnapshotItself(h, p) == [heap |-> h, ref |-> p]

\* clone = self.parent.clone()
SnapshotCopy(h, p) == clone(h, p)

\* Faulty variant of Restore: the fields are taken from the snapshot, so
\* the Student holds the snapshot's model and optimizer.
RestoreWithoutCopy(h, s) ==
    RestoreBaseline(
        RestoreTimes(
            RestoreObjects(h, s, h.students[s].parent),
            s, h.students[s].parent),
        s, h.students[s].parent)

\* pop when a snapshot is held: every field is taken from a clone of it
Restore(h, s) ==
    LET made == SnapshotCopy(h, h.students[s].parent)
    IN  RestoreBaseline(
            RestoreTimes(
                RestoreObjects(made.heap, s, made.ref), s, made.ref),
            s, made.ref)

\* Faulty variant of pop: the lists are cleared before parent is looked at.
popClearsFirst(h, s) ==
    IF h.students[s].parent = None
    THEN [h EXCEPT !.lists[h.students[s].times] = <<>>,
                   !.lists[h.students[s].grades] = <<>>,
                   !.lists[h.students[s].baseline_grades] = <<>>,
                   !.lists[h.students[s].relative_grades] = <<>>]
    ELSE Restore(h, s)

\* Student.pop
pop(h, s) ==
    IF h.students[s].parent = None
    THEN h
    ELSE Restore(h, s)

(***************************************************************************)
(* study                                                                   *)
(***************************************************************************)
\* model(batch): one loss per example of the batch
Losses(w, b, batch_size) ==
    IF batch_size = 0 THEN <<>>
    ELSE [i \in 1 .. batch_size |-> Forward(w, b, i)]

\* The closure of study, called by the optimizer on batch b: the live
\* model's losses, non-finite ones replaced by 0.0, and the baseline's.
closure(h, s, b) ==
    LET st == h.students[s]
        raw == Losses(h.models[st.model].w, b, st.batch_size)
    IN  [losses |-> IF raw = <<>> THEN <<>>
                    ELSE [i \in 1 .. Len(raw) |-> NanToNum(raw[i])],
         baseline_losses |->
            IF st.baseline /= None
            THEN Losses(h.models[st.baseline].w, b, st.batch_size)
            ELSE <<>>]

\* optimizer.step(closure): the closure has put gradients on the parameters
\* of model `trained`; the optimizer updates the parameters it holds, if
\* they have gradients, at the rate its schedule gives for its step count.
OptimizerStep(h, o, trained, b) ==
    LET opt == h.optimizers[o]
        h1 == IF opt.params = trained
              THEN [h EXCEPT !.models[trained].w = Update(@, b, opt.lr[opt.n])]
              ELSE h
    IN  [h1 EXCEPT !.optimizers[o].n = @ + 1]

\* lst.append(x)
ListAppend(h, lst, x) == [h EXCEPT !.lists[lst] = Append(@, x)]

\* self.time += elapsed; self.times.append(elapsed)
RecordTime(h, s, elapsed) ==
    ListAppend([h EXCEPT !.students[s].time = FAdd(@, elapsed)],
               h.students[s].times, elapsed)

\* grade = 1.0 - np.mean(losses)
Grade(losses) == FSub(Q(1, 1), FMean(losses))

\* relative_grade = grade/(1e-8+baseline_grade)
RelativeGrade(grade, baseline_grade) ==
    FDiv(grade, FAdd(Q(1, 100000000), baseline_grade))

\* Faulty variant of RecordGrades: without a baseline, no baseline grade
\* is recorded.
RecordGradesNoBaselineEntry(h, s, out) ==
    LET st == h.students[s]
        grade == Grade(out.losses)
        h1 == ListAppend(h, st.grades, grade)
        h2 == IF st.baseline /= None
              THEN ListAppend(h1, st.baseline_grades,
                              Grade(out.baseline_losses))
              ELSE h1
    IN  ListAppend(h2, st.relative_grades,
                   IF st.baseline /= None
                   THEN RelativeGrade(grade, Grade(out.baseline_losses))
                   ELSE Q(1, 1))

\* Faulty variant of RecordGrades: without a baseline, the relative grade is
\* the grade divided by itself as it is with one.
RecordGradesAlwaysDivides(h, s, out) ==
    LET st == h.students[s]
        grade == Grade(out.losses)
        baseline_grade == IF st.baseline /= None
                          THEN Grade(out.baseline_losses)
                          ELSE grade
    IN  ListAppend(
            ListAppend(
                ListAppend(h, st.grades, grade),
                st.baseline_grades, baseline_grade),
            st.relative_grades, RelativeGrade(grade, baseline_grade))

\* The grades of one step: grade, baseline_grade and relative_grade.
RecordGrades(h, s, out) ==
    LET st == h.students[s]
        grade == Grade(out.losses)
        baseline_grade == IF st.baseline /= None
                          THEN Grade(out.baseline_losses)
                          ELSE grade
        relative_grade == IF st.baseline /= None
                          THEN RelativeGrade(grade, baseline_grade)
                          ELSE Q(1, 1)
    IN  ListAppend(
            ListAppend(
                ListAppend(h, st.grades, grade),
                st.baseline_grades, baseline_grade),
            st.relative_grades, relative_grade)

\* Student.study, taking `elapsed` ticks on batch b
study(h, s, elapsed, b) ==
    LET st == h.students[s]
        out == closure(h, s, b)
        h1 == OptimizerStep(h, st.optimizer, st.model, b)
    IN  RecordGrades(RecordTime(h1, s, elapsed), s, out)

\* Where a study() call can raise: in the closure, at dataset.batch(), at
\* model(batch) or at baseline(batch); or in optimizer.step() outside the
\* closure, before or after it has updated the parameters.
Faults == {"dataset", "model", "baseline", "optimizer",
           "optimizer after update"}

\* Faulty variant of studyRaises: the time is recorded before the step.
studyRaisesAfterTiming(h, s, at, b) == RecordTime(h, s, Q(1, 1))

\* Student.study when the call raises at `at`: the error leaves study() at
\* the optimizer.step(closure) statement.
studyRaises(h, s, at, b) ==
    IF at = "optimizer after update"
    THEN OptimizerStep(h, h.students[s].optimizer, h.students[s].model, b)
    ELSE h

\* Student.study with an optimizer that calls the closure twice, as a line
\* search does: the closure draws a batch at each call, b and then b2; the
\* optimizer returns what the first call returned and updates the
\* parameters from the gradients of the second.
studyTwoClosureCalls(h, s, elapsed, b, b2) ==
    LET st == h.students[s]
        out == closure(h, s, b)
        h1 == OptimizerStep(h, st.optimizer, st.model, b2)
    IN  RecordGrades(RecordTime(h1, s, elapsed), s, out)

(***************************************************************************)
(* mutate                                                                  *)
(***************************************************************************)
\* random.choice([0.5, 0.75, 1.0/0.75, 2.0]); int(r*batch_size) with the
\* float 1.0/0.75 equals the floor of 4*batch_size/3 for batch sizes 0..199.
Multipliers == {Q(1, 2), Q(3, 4), Q(4, 3), Q(2, 1)}

\* The draws of one mutate() call that are explored: the multiplier of
\* batch_size and the multiplier of the learning rate.  Each multiplier
\* occurs in each of the two places.
MutationDraws == {[r1 |-> Q(1, 2), r2 |-> Q(2, 1)],
                  [r1 |-> Q(3, 4), r2 |-> Q(4, 3)],
                  [r1 |-> Q(4, 3), r2 |-> Q(3, 4)],
                  [r1 |-> Q(2, 1), r2 |-> Q(1, 2)]}

\* the minimum learning rate, 1e-6
MinLR == Q(1, 1000000)

\* self.batch_size = int(r*self.batch_size)
MutateBatchSize(batch_size, r) == FloorInt(FMul(r, Q(batch_size, 1)))

\* Faulty variant of MutateLR: a zero learning rate is kept.
MutateLRKeepsZero(lr, r) == FMul(lr, r)

\* lr = lr*r; if lr == 0.0: lr = 1e-6
MutateLR(lr, r) ==
    LET product == FMul(lr, r)
    IN  IF IsFinite(product) /\ product.n = 0 THEN MinLR ELSE product

\* lr = self.optimizer.param_groups[0]["lr"](0)
CurrentLR(schedule) == schedule[0]

\* lambda n: lr
ConstantSchedule(lr) == [n \in Steps |-> lr]

\* Student.mutate with the multipliers r1 and r2 drawn
mutate(h, s, r1, r2) ==
    LET st == h.students[s]
        h1 == [h EXCEPT !.students[s].batch_size = MutateBatchSize(@, r1)]
        lr == MutateLR(CurrentLR(h1.optimizers[st.optimizer].lr), r2)
    IN  [h1 EXCEPT !.optimizers[st.optimizer].lr = ConstantSchedule(lr),
                   !.optimizers[st.optimizer].lr_is_lambda = TRUE]

(***************************************************************************)
(* autocomplete                                                            *)
(***************************************************************************)
\* An optional argument: Nothing for None, Some(x) for x.
Nothing == <<>>
Some(x) == <<x>>

\* utf8encode and utf8decode, on text over the letters a and b: a text is
\* the sequence of its letters, a token the byte of a letter.
encode(text) ==
    IF text = <<>> THEN <<>>
    ELSE [i \in 1 .. Len(text) |-> IF text[i] = "a" THEN 97 ELSE 98]

decode(tokens) ==
    IF tokens = <<>> THEN <<>>
    ELSE [i \in 1 .. Len(tokens) |-> IF tokens[i] = 97 THEN "a" ELSE "b"]

\* self.model.n_ctx
ModelNCtx == 2

\* self.dataset.batch(1, n).tolist()[0]: n tokens of the data
DatasetSlice(n) == [i \in 1 .. n |-> IF i % 2 = 1 THEN 98 ELSE 97]

\* Faulty variant of LastTokens: x[:n], the oldest n tokens.
FirstTokens(x, n) == IF Len(x) <= n THEN x ELSE SubSeq(x, 1, n)

\* x[-n:] for n >= 0; x[-0:] is all of x
LastTokens(x, n) ==
    IF n = 0 \/ Len(x) <= n THEN x
    ELSE SubSeq(x, Len(x) - n + 1, Len(x))

\* The generator sampler(x), run to its end: one record per iteration, with
\* the context given to model.inference and the token y sampled.  ys is
\* what the sampling yields, call after call.
RECURSIVE sampler(_, _, _, _)
sampler(x, n_ctx, n_generate, ys) ==
    IF n_generate = 0 THEN <<>>
    ELSE <<[context |-> x, y |-> Head(ys)]>> \o
         sampler(LastTokens(x \o <<Head(ys)>>, n_ctx), n_ctx,
                 n_generate - 1, Tail(ys))

\* Student.autocomplete(prompt, n_generate, n_ctx, output=output) with the
\* default encode and decode: the contexts model.inference was called with,
\* the output list after the call, and the text returned.
autocomplete(h, s, prompt, n_generate, n_ctx_arg, output, ys) ==
    LET n_ctx == IF n_ctx_arg = Nothing THEN ModelNCtx ELSE n_ctx_arg[1]
        text == IF prompt = Nothing THEN decode(DatasetSlice(2 * n_ctx))
                ELSE prompt[1]
        x == LastTokens(encode(text), n_ctx)
        steps == sampler(x, n_ctx, n_generate, ys)
        generated == IF steps = <<>> THEN <<>>
                     ELSE [i \in 1 .. Len(steps) |-> steps[i].y]
    IN  [inference |-> IF steps = <<>> THEN <<>>
                       ELSE [i \in 1 .. Len(steps) |-> steps[i].context],
         output |-> IF output = Nothing THEN Nothing
                    ELSE Some(output[1] \o generated),
         returned |-> decode(generated)]

\* The autocomplete() calls explored: prompts shorter and longer than the
\* context window and no prompt, n_generate from 0 to 3, n_ctx given or
\* not, an output list given (empty or not) or not.
Completions ==
    {[prompt |-> Some(<<"a", "b">>), n_generate |-> 0, n_ctx |-> Nothing,
      output |-> Some(<<>>)],
     [prompt |-> Some(<<"a", "b", "b">>), n_generate |-> 1, n_ctx |-> Some(1),
      output |-> Some(<<98>>)],
     [prompt |-> Some(<<"a", "a", "b">>), n_generate |-> 3, n_ctx |-> Some(2),
      output |-> Some(<<97>>)],
     [prompt |-> Some(<<"b">>), n_generate |-> 3, n_ctx |-> Some(3),
      output |-> Nothing],
     [prompt |-> Some(<<>>), n_generate |-> 2, n_ctx |-> Some(1),
      output |-> Some(<<>>)],
     [prompt |-> Nothing, n_generate |-> 2, n_ctx |-> Nothing,
      output |-> Some(<<>>)]}

\* What the sampling can yield in three calls.
Samples == {<<97, 98, 98>>, <<98, 97, 97>>}

(***************************************************************************)
(* save and load                                                           *)
(***************************************************************************)
\* torch.save pickles the checkpoint, and pickle serializes a function by
\* its qualified name: it raises on a lambda defined inside a method.  The
\* checkpoint reaches the optimizer of the Student and, through parent, the
\* optimizers of its snapshots.
RECURSIVE Picklable(_, _)
Picklable(h, s) ==
    /\ ~h.optimizers[h.students[s].optimizer].lr_is_lambda
    /\ h.students[s].parent /= None => Picklable(h, h.students[s].parent)

\* Student.save: the file at the path after the call.  torch.save opens the
\* file for writing before it serializes, so a save that raises leaves a
\* file that is no checkpoint.  A checkpoint holds the objects as they are
\* at the call, and the Student whose fields it lists.
save(h, s) ==
    IF Picklable(h, s)
    THEN [kind |-> "checkpoint", heap |-> h, ref |-> s]
    ELSE [kind |-> "unreadable"]

\* A reference of the checkpoint, as a reference to the objects made of it.
Moved(r, by) == IF r = None THEN None ELSE r + by

\* torch.load(path): the objects of the checkpoint as new objects, which
\* refer to each other as the saved ones did.  Saved objects the checkpoint
\* does not reach come along, and nothing refers to them.
Unpickle(h, file) ==
    LET f == file.heap
        S == Len(h.students)
        M == Len(h.models)
        O == Len(h.optimizers)
        D == Len(h.datasets)
        L == Len(h.lists)
    IN  [heap |->
           [students |-> h.students \o
                [i \in 1 .. Len(f.students) |->
                    [f.students[i] EXCEPT
                        !.model = Moved(@, M), !.optimizer = Moved(@, O),
                        !.dataset = Moved(@, D), !.times = Moved(@, L),
                        !.grades = Moved(@, L),
                        !.baseline_grades = Moved(@, L),
                        !.relative_grades = Moved(@, L),
                        !.parent = Moved(@, S), !.baseline = Moved(@, M)]],
            models |-> h.models \o f.models,
            optimizers |-> h.optimizers \o
                [i \in 1 .. Len(f.optimizers) |->
                    [f.optimizers[i] EXCEPT !.params = Moved(@, M)]],
            datasets |-> h.datasets \o f.datasets,
            lists |-> h.lists \o f.lists],
         ref |-> file.ref + S]

\* Student.load from a readable checkpoint: each of the twelve fields of
\* self is bound to what the checkpoint holds for it.
load(h, s, file) ==
    LET got == Unpickle(h, file)
    IN  [got.heap EXCEPT !.students[s] = got.heap.students[got.ref]]

\* student = Student(), the first statement of load_from_path
EmptyStudent(h) ==
    [heap |-> [h EXCEPT
                 !.students = Append(@, NewStudent(None, None, None, None,
                                                   None, Len(h.lists))),
                 !.lists = @ \o <<<<>>, <<>>, <<>>, <<>>>>],
     ref |-> Len(h.students) + 1]

\* Student.load_from_path from a readable checkpoint
load_from_path(h, file) ==
    LET made == EmptyStudent(h)
    IN  [heap |-> load(made.heap, made.ref, file), ref |-> made.ref]

(***************************************************************************)
(* The calls a caller can make.                                            *)
(***************************************************************************)
\* A call other than autocomplete(), which leaves the objects as h.
Call(h) ==
    /\ calls < MaxCalls
    /\ calls' = calls + 1
    /\ completion' = NoCompletion
    /\ students' = h.students
    /\ models' = h.models
    /\ optimizers' = h.optimizers
    /\ datasets' = h.datasets
    /\ lists' = h.lists

Op(name, s, arg) == [op |-> name, s |-> s, arg |-> arg]

\* Where a Student is in push() .. pop(): "pushed" from its latest push() to
\* the first pop() after it, "popped" after that pop(), "drained" after
\* further pop() calls, "idle" otherwise; changed: study() or mutate() was
\* called between that push() and that pop().
AfterChange(ph) ==
    IF ph.at = "pushed" THEN [ph EXCEPT !.changed = TRUE]
    ELSE [at |-> "idle", changed |-> FALSE]

AfterPop(ph) ==
    CASE ph.at = "pushed" -> [ph EXCEPT !.at = "popped"]
      [] ph.at = "popped" -> [ph EXCEPT !.at = "drained"]
      [] OTHER -> ph

\* What a push() on s is remembered by: the value of s and its baseline
\* just before the call.
Pushed(s) == [set |-> TRUE, value |-> Value(s),
              baseline |-> students[s].baseline]

Study(s, elapsed, b) ==
    /\ s \in roots
    /\ Call(study(Heap, s, Q(elapsed, 1), b))
    /\ lastOp' = Op("study", s, 0)
    /\ phase' = [phase EXCEPT ![s] = AfterChange(@)]
    /\ UNCHANGED <<roots, disk, lastPush, prevPush, mutations, raised>>

Mutate(s, r1, r2) ==
    /\ s \in roots
    /\ r1 \in Multipliers /\ r2 \in Multipliers
    /\ mutations < MaxMutations
    /\ Call(mutate(Heap, s, r1, r2))
    /\ lastOp' = Op("mutate", s, 0)
    /\ phase' = [phase EXCEPT ![s] = AfterChange(@)]
    /\ mutations' = mutations + 1
    /\ UNCHANGED <<roots, disk, lastPush, prevPush, raised>>

Push(s) ==
    /\ s \in roots
    /\ Call(push(Heap, s))
    /\ lastOp' = Op("push", s, 0)
    /\ phase' = [phase EXCEPT ![s] = [at |-> "pushed", changed |-> FALSE]]
    /\ prevPush' = [prevPush EXCEPT ![s] = lastPush[s]]
    /\ lastPush' = [lastPush EXCEPT ![s] = Pushed(s)]
    /\ UNCHANGED <<roots, disk, mutations, raised>>

Pop(s) ==
    /\ s \in roots
    /\ Call(pop(Heap, s))
    /\ lastOp' = Op("pop", s, students[s].parent)
    /\ phase' = [phase EXCEPT ![s] = AfterPop(@)]
    /\ UNCHANGED <<roots, disk, lastPush, prevPush, mutations, raised>>

Clone(s) ==
    /\ s \in roots
    /\ LET made == clone(Heap, s)
       IN  /\ Call(made.heap)
           /\ roots' = roots \cup {made.ref}
           /\ lastOp' = Op("clone", s, made.ref)
           /\ phase' = (made.ref :> phase[s]) @@ phase
           /\ lastPush' = (made.ref :> lastPush[s]) @@ lastPush
           /\ prevPush' = (made.ref :> prevPush[s]) @@ prevPush
    /\ UNCHANGED <<disk, mutations, raised>>

\* A Student whose fields load() has replaced has the history of a new one.
Fresh == [at |-> "idle", changed |-> FALSE]

Save(s) ==
    /\ s \in roots
    /\ Call(Heap)
    /\ disk' = save(Heap, s)
    /\ lastOp' = Op("save", s, 0)
    /\ UNCHANGED <<roots, phase, lastPush, prevPush, mutations, raised>>

\* load(path) on a Student the caller holds; torch.load raises, before any
\* field is assigned, when the file is missing or is no checkpoint.
Load(s) ==
    /\ s \in roots
    /\ IF disk.kind = "checkpoint"
       THEN /\ Call(load(Heap, s, disk))
            /\ lastOp' = Op("load", s, 0)
            /\ phase' = [phase EXCEPT ![s] = Fresh]
            /\ lastPush' = [lastPush EXCEPT ![s] = NoPush]
            /\ prevPush' = [prevPush EXCEPT ![s] = NoPush]
       ELSE /\ Call(Heap)
            /\ lastOp' = Op("load raised", s, 0)
            /\ UNCHANGED <<phase, lastPush, prevPush>>
    /\ UNCHANGED <<roots, disk, mutations, raised>>

\* Student.load_from_path(path); when torch.load raises, the caller gets
\* no Student.
LoadFromPath ==
    /\ IF disk.kind = "checkpoint"
       THEN LET made == load_from_path(Heap, disk)
            IN  /\ Call(made.heap)
                /\ roots' = roots \cup {made.ref}
                /\ lastOp' = Op("load_from_path", made.ref, 0)
                /\ phase' = (made.ref :> Fresh) @@ phase
                /\ lastPush' = (made.ref :> NoPush) @@ lastPush
                /\ prevPush' = (made.ref :> NoPush) @@ prevPush
       ELSE /\ Call(Heap)
            /\ lastOp' = Op("load_from_path raised", 0, 0)
            /\ UNCHANGED <<roots, phase, lastPush, prevPush>>
    /\ UNCHANGED <<disk, mutations, raised>>

Next ==
    \/ \E s \in roots, in \in StudyInputs : Study(s, in.elapsed, in.batch)
    \/ \E s \in roots, draw \in MutationDraws : Mutate(s, draw.r1, draw.r2)
    \/ \E s \in roots : Push(s)
    \/ \E s \in roots : Pop(s)
    \/ \E s \in roots : Clone(s)

Spec == Init /\ [][Next]_vars

\* A study() call that raises at `at`.
StudyRaises(s, at, b) ==
    /\ s \in roots
    /\ raised < MaxRaised
    /\ at \in Faults
    /\ at = "baseline" => students[s].baseline /= None
    /\ Call(studyRaises(Heap, s, at, b))
    /\ lastOp' = Op("study raised", s, 0)
    /\ phase' = [phase EXCEPT ![s] = AfterChange(@)]
    /\ raised' = raised + 1
    /\ UNCHANGED <<roots, disk, lastPush, prevPush, mutations>>

\* A study() call whose optimizer calls the closure twice; arg of the call:
\* the closure calls after the first.
StudyTwoClosureCalls(s, elapsed, b, b2) ==
    /\ s \in roots
    /\ Call(studyTwoClosureCalls(Heap, s, Q(elapsed, 1), b, b2))
    /\ lastOp' = Op("study", s, 1)
    /\ phase' = [phase EXCEPT ![s] = AfterChange(@)]
    /\ UNCHANGED <<roots, disk, lastPush, prevPush, mutations, raised>>

\* A clone() call whose deep copy raises: the caller gets no Student.
CloneRaises(s) ==
    /\ s \in roots
    /\ raised < MaxRaised
    /\ Call(cloneRaises(Heap, s))
    /\ lastOp' = Op("clone raised", s, 0)
    /\ phase' = [phase EXCEPT ![s] = Fresh]
    /\ raised' = raised + 1
    /\ UNCHANGED <<roots, disk, lastPush, prevPush, mutations>>

\* A push() call whose clone() raises.
PushRaises(s) ==
    /\ s \in roots
    /\ raised < MaxRaised
    /\ Call(pushRaises(Heap, s))
    /\ lastOp' = Op("push raised", s, 0)
    /\ phase' = [phase EXCEPT ![s] = Fresh]
    /\ raised' = raised + 1
    /\ UNCHANGED <<roots, disk, lastPush, prevPush, mutations>>

\* The calls, with those that raise among them.
NextFaults ==
    \/ Next
    \/ \E s \in roots, at \in Faults, in \in StudyInputs :
            StudyRaises(s, at, in.batch)
    \/ \E s \in roots : StudyTwoClosureCalls(s, 1, 1, 2)
    \/ \E s \in roots : CloneRaises(s)
    \/ \E s \in roots : PushRaises(s)

SpecFaults == Init /\ [][NextFaults]_vars

\* autocomplete() on a Student the caller holds; ys: what sampling yields.
Autocomplete(s, in, ys) ==
    /\ s \in roots
    /\ calls < MaxCalls
    /\ calls' = calls + 1
    /\ lastOp' = Op("autocomplete", s, 0)
    /\ completion' =
          [called |-> TRUE, in |-> in, ys |-> ys,
           out |-> autocomplete(Heap, s, in.prompt, in.n_generate, in.n_ctx,
                                in.output, ys)]
    /\ UNCHANGED <<students, models, optimizers, datasets, lists, roots,
                   disk, phase, lastPush, prevPush, mutations, raised>>

\* The calls, with autocomplete among them.
NextSampling ==
    \/ Next
    \/ \E s \in roots, in \in Completions, ys \in Samples :
            Autocomplete(s, in, ys)

SpecSampling == Init /\ [][NextSampling]_vars

\* The calls, with save and load among them.
NextIO ==
    \/ Next
    \/ \E s \in roots : Save(s)
    \/ \E s \in roots : Load(s)
    \/ LoadFromPath

SpecIO == Init /\ [][NextIO]_vars

(***************************************************************************)
(* Properties.                                                             *)
(***************************************************************************)
\* Every Student object: the caller's, the snapshots, and the clones pop made.
Objects == 1 .. Len(students)

Times(s) == lists[students[s].times]
Grades(s) == lists[students[s].grades]
BaselineGrades(s) == lists[students[s].baseline_grades]
RelativeGrades(s) == lists[students[s].relative_grades]

\* C1: round trip.  After push(), any study() and mutate() calls and then
\* pop(), a Student's model, optimizer, dataset, batch_size, example_length,
\* time, times, grades, baseline_grades and relative_grades equal their
\* values just before the push().
RoundTrip ==
    \A s \in roots :
        phase[s].at = "popped" => Value(s) = lastPush[s].value

\* A pop() has just undone the study() or mutate() calls made since push().
RoundTripWitness ==
    \E s \in roots :
        /\ lastOp = Op("pop", s, lastOp.arg) /\ lastOp.arg /= None
        /\ phase[s] = [at |-> "popped", changed |-> TRUE]
        /\ Times(s) /= <<>>

\* C2: the four metric lists of every Student have one length, and a
\* study() call makes each of them one longer.
SameLengths ==
    \A s \in Objects :
        /\ Len(Grades(s)) = Len(Times(s))
        /\ Len(BaselineGrades(s)) = Len(Times(s))
        /\ Len(RelativeGrades(s)) = Len(Times(s))

StudyAddsOne ==
    \A s \in roots :
        (lastOp' = [op |-> "study", s |-> s, arg |-> 0]
            /\ \E in \in StudyInputs : Study(s, in.elapsed, in.batch)) =>
            /\ Len(Times(s)') = Len(Times(s)) + 1
            /\ Len(Grades(s)') = Len(Grades(s)) + 1
            /\ Len(BaselineGrades(s)') = Len(BaselineGrades(s)) + 1
            /\ Len(RelativeGrades(s)') = Len(RelativeGrades(s)) + 1

MetricLengths == []SameLengths /\ [][StudyAddsOne]_vars

\* Two study() calls in a row, the first without and the second with a
\* baseline, have made the lists of a Student two longer than its snapshot's.
MetricLengthsWitness ==
    \E s \in roots :
        /\ lastOp = Op("study", s, 0)
        /\ students[s].parent /= None
        /\ Len(Times(s)) = Len(Times(students[s].parent)) + 2
        /\ Len(Times(students[s].parent)) = 1

\* C3: time is the sum of times, for every Student: constructed, cloned,
\* snapshot or restored by pop().
TimeIsSumOfTimes ==
    \A s \in Objects : students[s].time = FSum(Times(s))

\* A pop() has just restored a Student to a snapshot with time spent, while
\* a clone with time spent exists.
TimeIsSumOfTimesWitness ==
    \E s \in roots, c \in roots :
        /\ s /= c
        /\ lastOp = Op("pop", s, lastOp.arg) /\ lastOp.arg /= None
        /\ Times(s) /= <<>> /\ Times(c) /= <<>>
        /\ Times(s) /= Times(c)

\* The fields C4 speaks of.
Core(v) == [model |-> v.model, optimizer |-> v.optimizer,
            batch_size |-> v.batch_size, time |-> v.time,
            times |-> v.times, grades |-> v.grades,
            baseline_grades |-> v.baseline_grades,
            relative_grades |-> v.relative_grades]

\* C4: a second push() loses the first snapshot.  After two push() calls
\* and then any number of pop() calls, a Student is as it was at the second
\* push(), holds no snapshot, and is not as it was at the first push().
SecondPushWins ==
    \A s \in roots :
        (phase[s].at \in {"popped", "drained"} /\ prevPush[s].set) =>
            /\ Core(Value(s)) = Core(lastPush[s].value)
            /\ students[s].parent = None
            /\ Core(prevPush[s].value) /= Core(lastPush[s].value)
                   => Core(Value(s)) /= Core(prevPush[s].value)

\* push(), study(), push(), pop(), pop(): the second pop() found no snapshot.
SecondPushWinsWitness ==
    \E s \in roots :
        /\ phase[s].at = "drained" /\ prevPush[s].set
        /\ lastOp = Op("pop", s, None)
        /\ Core(prevPush[s].value) /= Core(lastPush[s].value)

\* C5: pop() on a Student that holds no snapshot changes no field of any
\* object.
PopWithoutSnapshot ==
    \A s \in roots :
        (students[s].parent = None /\ Pop(s)) =>
            UNCHANGED <<students, models, optimizers, datasets, lists, roots>>

PopWithoutSnapshotIsNoOp == [][PopWithoutSnapshot]_vars

\* pop() has just been called on a Student with metrics and no snapshot:
\* one never pushed, or one whose snapshot an earlier pop() consumed.
PopWithoutSnapshotWitness ==
    /\ lastOp.op = "pop" /\ lastOp.arg = None
    /\ Times(lastOp.s) /= <<>>
    /\ phase[lastOp.s].at \in {"idle", "drained"}

\* C6: clone() returns a Student that holds the original's parent and
\* baseline objects, and whose model, optimizer and four metric lists are
\* other objects of equal contents; two Students of the caller share none
\* of these objects, and study() or mutate() on one leaves the value of
\* every other unchanged.
CloneSharesAnchors ==
    lastOp.op = "clone" =>
        LET s == students[lastOp.s]
            c == students[lastOp.arg]
        IN  /\ c.parent = s.parent
            /\ c.baseline = s.baseline
            /\ c.model /= s.model
            /\ c.optimizer /= s.optimizer
            /\ c.times /= s.times
            /\ c.grades /= s.grades
            /\ c.baseline_grades /= s.baseline_grades
            /\ c.relative_grades /= s.relative_grades
            /\ Value(lastOp.arg) = Value(lastOp.s)

Lists(s) == {students[s].times, students[s].grades,
             students[s].baseline_grades, students[s].relative_grades}

NothingShared ==
    \A s \in roots : \A c \in roots \ {s} :
        /\ students[c].model /= students[s].model
        /\ students[c].optimizer /= students[s].optimizer
        /\ optimizers[students[c].optimizer].params /= students[s].model
        /\ Lists(c) \cap Lists(s) = {}

OthersUnchanged ==
    \A s \in roots :
        (lastOp' \in {[op |-> "study", s |-> s, arg |-> 0],
                      [op |-> "mutate", s |-> s, arg |-> 0]}) =>
            \A c \in roots \ {s} : Value(c)' = Value(c)

CloneIsIndependent ==
    [](CloneSharesAnchors /\ NothingShared) /\ [][OthersUnchanged]_vars

\* A clone made of a Student that holds a snapshot has just studied, and
\* differs from the original.
CloneIsIndependentWitness ==
    \E s \in roots : \E c \in roots \ {s} :
        /\ lastOp = Op("study", c, 0)
        /\ students[s].parent /= None
        /\ students[c].parent = students[s].parent
        /\ students[c].baseline = students[s].baseline
        /\ Value(c) /= Value(s)

\* C7: mutate() leaves batch_size >= 1.
BatchSizeStaysPositive ==
    \A s \in roots : students[s].batch_size >= 1

\* C8: mutate() on a Student whose schedule is non-negative at step 0 makes
\* the schedule constant and greater than zero: the old value at step 0
\* times the multiplier drawn, or 1e-6 when that product is zero.
MutateSetsRate ==
    \A s \in roots, draw \in MutationDraws :
        LET old == optimizers[students[s].optimizer].lr
            new == optimizers'[students[s].optimizer].lr
            product == FMul(old[0], draw.r2)
        IN  (/\ lastOp' = [op |-> "mutate", s |-> s, arg |-> 0]
             /\ Mutate(s, draw.r1, draw.r2)
             /\ Sign(old[0]) >= 0 /\ old[0] /= NaN) =>
                /\ \A n \in Steps : new[n] = new[0]
                /\ IsFinite(new[0]) /\ Sign(new[0]) = 1
                /\ new[0] = IF product = Q(0, 1) THEN MinLR ELSE product

MutateMakesRateConstant == [][MutateSetsRate]_vars

\* mutate() has just collapsed a schedule that was 0.0 at step 0 and grew
\* with the step count to the constant 1e-6.
MutateMakesRateConstantWitness ==
    \E s \in roots :
        /\ lastOp = Op("mutate", s, 0)
        /\ optimizers[students[s].optimizer].lr = ConstantSchedule(MinLR)

\* C9, as claimed: a baseline that is set has the weights the Student's
\* model had at the latest push() made on that Student.
BaselineIsLatestPush ==
    \A s \in roots :
        students[s].baseline /= None =>
            /\ lastPush[s].set
            /\ models[students[s].baseline] = lastPush[s].value.model

\* C9, amended: while a Student holds a snapshot, its baseline is that
\* snapshot's model, with the weights the Student's model had at its latest
\* push(); once pop() has restored the snapshot, its baseline is the one it
\* held just before that push().
BaselineOfHeldSnapshot ==
    \A s \in roots :
        /\ students[s].parent /= None =>
              /\ lastPush[s].set
              /\ students[s].baseline = students[students[s].parent].model
              /\ models[students[s].baseline] = lastPush[s].value.model
        /\ phase[s].at \in {"popped", "drained"} =>
              students[s].baseline = lastPush[s].baseline

\* push(), study(), push(), pop(): the baseline is the snapshot of the first
\* push(), whose weights are not those of the second.
BaselineOfHeldSnapshotWitness ==
    \E s \in roots :
        /\ phase[s].at = "popped"
        /\ lastOp = Op("pop", s, lastOp.arg) /\ lastOp.arg /= None
        /\ students[s].baseline /= None
        /\ models[students[s].baseline] /= lastPush[s].value.model

\* C10: no baseline is a model that a study() call updates, and no call
\* changes the weights of a model that is some Student's baseline.
BaselineNotTrainable ==
    \A s \in Objects, r \in roots :
        students[s].baseline /= None =>
            /\ students[s].baseline /= students[r].model
            /\ students[s].baseline /= optimizers[students[r].optimizer].params

BaselineUnchanged ==
    \A s \in Objects :
        students[s].baseline /= None =>
            models'[students[s].baseline] = models[students[s].baseline]

BaselineNeverTrained ==
    []BaselineNotTrainable /\ [][BaselineUnchanged]_vars

\* A Student and its clone share a baseline, and both have trained since.
BaselineNeverTrainedWitness ==
    \E s \in roots : \E c \in roots \ {s} :
        /\ lastOp.op = "study"
        /\ students[s].baseline /= None
        /\ students[c].baseline = students[s].baseline
        /\ models[students[s].model] /= models[students[s].baseline]
        /\ models[students[c].model] /= models[students[s].baseline]

\* The last entry of a list.
Last(xs) == xs[Len(xs)]

\* What the live model returns for batch b at a Student's current weights,
\* one loss per example, each non-finite loss counted as 0.0.
LiveLosses(s, b) ==
    LET w == models[students[s].model].w
        n == students[s].batch_size
    IN  IF n = 0 THEN <<>>
        ELSE [i \in 1 .. n |->
                IF IsFinite(Forward(w, b, i)) THEN Forward(w, b, i)
                ELSE Q(0, 1)]

\* C11: a study() call on a Student without a baseline appends
\* 1 - mean(losses) to grades, the same value to baseline_grades and 1.0 to
\* relative_grades; a constant loss of 0.3 gives the grade 0.7.
StudyWithoutBaseline ==
    \A s \in roots : \A in \in StudyInputs :
        (/\ lastOp' = [op |-> "study", s |-> s, arg |-> 0]
         /\ students[s].baseline = None
         /\ Study(s, in.elapsed, in.batch)) =>
            LET losses == LiveLosses(s, in.batch)
                grade == FSub(Q(1, 1), FDiv(FSum(losses), Q(Len(losses), 1)))
            IN  /\ Grades(s)' = Append(Grades(s), grade)
                /\ BaselineGrades(s)' = Append(BaselineGrades(s), grade)
                /\ RelativeGrades(s)' = Append(RelativeGrades(s), Q(1, 1))
                /\ Times(s)' = Append(Times(s), Q(in.elapsed, 1))

ConstantLossExample ==
    Grade([i \in 1 .. 4 |-> Q(3, 10)]) = Q(7, 10)

GradesWithoutBaseline ==
    []ConstantLossExample /\ [][StudyWithoutBaseline]_vars

\* One study() call on a fresh Student, whose model returned the loss 0.2.
GradesWithoutBaselineWitness ==
    \E s \in roots :
        /\ lastOp = Op("study", s, 0)
        /\ students[s].baseline = None
        /\ Grades(s) = <<Q(4, 5)>>
        /\ BaselineGrades(s) = <<Q(4, 5)>>
        /\ RelativeGrades(s) = <<Q(1, 1)>>
        /\ Len(Times(s)) = 1

\* A Student with all that a checkpoint of it holds: its fields, its
\* snapshot, its baseline, and whether the baseline is its snapshot's model.
RECURSIVE Structure(_, _)
Structure(h, s) ==
    LET st == h.students[s]
    IN  [value |-> ValueIn(h, s),
         parent |-> IF st.parent = None THEN <<>>
                    ELSE <<Structure(h, st.parent)>>,
         baseline |-> IF st.baseline = None THEN <<>>
                      ELSE <<h.models[st.baseline]>>,
         baseline_of_parent |->
            /\ st.parent /= None
            /\ st.baseline = h.students[st.parent].model]

\* C12: save(path) writes a checkpoint of the Student as it is, and
\* load(path) or load_from_path(path) then gives a Student with equal
\* fields and structurally equal model, optimizer, dataset, parent and
\* baseline.
SaveLoadRoundTrip ==
    /\ lastOp.op = "save" =>
          /\ disk.kind = "checkpoint"
          /\ Structure(disk.heap, disk.ref) = Structure(Heap, lastOp.s)
    /\ lastOp.op \in {"load", "load_from_path"} =>
          Structure(Heap, lastOp.s) = Structure(disk.heap, disk.ref)

\* |x - y| <= tol, for finite y and tol
Near(x, y, tol) ==
    /\ IsFinite(x)
    /\ Abs(FSub(x, y).n) * tol.d <= tol.n * FSub(x, y).d

\* What the baseline returns for batch b, one loss per example.
BaselineLosses(s, b) ==
    LET w == models[students[s].baseline].w
        n == students[s].batch_size
    IN  IF n = 0 THEN <<>> ELSE [i \in 1 .. n |-> Forward(w, b, i)]

\* C13: the grade lags the optimizer step.  The grade a study() call appends
\* is computed from the weights the live model had before the call, and the
\* baseline grade from the baseline on the same batch; so in the first
\* study() after a push() the baseline grade equals the grade and the
\* relative grade is 1.0 within 1e-6.
GradesFromWeightsBeforeStep ==
    \A s \in roots : \A in \in StudyInputs :
        (/\ lastOp' = [op |-> "study", s |-> s, arg |-> 0]
         /\ Study(s, in.elapsed, in.batch)) =>
            /\ Last(Grades(s)') = Grade(LiveLosses(s, in.batch))
            /\ students[s].baseline /= None =>
                  Last(BaselineGrades(s)') =
                      Grade(BaselineLosses(s, in.batch))

FirstStudyAfterPush ==
    \A s \in roots :
        (/\ lastOp = Op("study", s, 0)
         /\ students[s].parent /= None
         /\ students[s].baseline = students[students[s].parent].model
         /\ Len(Times(s)) = Len(Times(students[s].parent)) + 1) =>
            /\ Last(BaselineGrades(s)) = Last(Grades(s))
            /\ Near(Last(RelativeGrades(s)), Q(1, 1), Q(1, 1000000))

GradeLagsStep ==
    [][GradesFromWeightsBeforeStep]_vars /\ []FirstStudyAfterPush

\* C14: non-finite losses do not reach the metrics.  Whatever losses the
\* live model and the baseline return for a batch that is not empty, the
\* grade and the baseline grade a study() call appends are 1 - mean of the
\* losses with each non-finite one counted as 0.0, and they and the
\* relative grade are finite.
Zeroed(losses) ==
    IF losses = <<>> THEN <<>>
    ELSE [i \in 1 .. Len(losses) |->
            IF IsFinite(losses[i]) THEN losses[i] ELSE Q(0, 1)]

StudyZeroesNonFinite ==
    \A s \in roots : \A in \in StudyInputs :
        (/\ lastOp' = [op |-> "study", s |-> s, arg |-> 0]
         /\ students[s].batch_size >= 1
         /\ Study(s, in.elapsed, in.batch)) =>
            /\ Last(Grades(s)') = Grade(Zeroed(LiveLosses(s, in.batch)))
            /\ students[s].baseline /= None =>
                  Last(BaselineGrades(s)') =
                      Grade(Zeroed(BaselineLosses(s, in.batch)))
            /\ IsFinite(Last(Grades(s)'))
            /\ IsFinite(Last(BaselineGrades(s)'))
            /\ IsFinite(Last(RelativeGrades(s)'))

MetricsStayFinite == [][StudyZeroesNonFinite]_vars

\* C15: study() is all or nothing on the metrics.  A call that raises, in
\* the dataset, the model, the baseline or the optimizer, leaves time and
\* the four lists as they were; a call that returns adds one entry to each
\* list, whether the optimizer called the closure once or more often.
StudyIsAtomic ==
    \A s \in roots :
        /\ lastOp' = [op |-> "study raised", s |-> s, arg |-> 0] =>
              /\ students'[s].time = students[s].time
              /\ Times(s)' = Times(s)
              /\ Grades(s)' = Grades(s)
              /\ BaselineGrades(s)' = BaselineGrades(s)
              /\ RelativeGrades(s)' = RelativeGrades(s)
        /\ (lastOp'.op = "study" /\ lastOp'.s = s) =>
              /\ Times(s)' = Append(Times(s), Last(Times(s)'))
              /\ Grades(s)' = Append(Grades(s), Last(Grades(s)'))
              /\ BaselineGrades(s)' =
                    Append(BaselineGrades(s), Last(BaselineGrades(s)'))
              /\ RelativeGrades(s)' =
                    Append(RelativeGrades(s), Last(RelativeGrades(s)'))
              /\ students'[s].time = FAdd(students[s].time, Last(Times(s)'))

StudyAllOrNothing == [][StudyIsAtomic]_vars

\* A study() call has raised after the optimizer updated the weights, on a
\* Student that has metrics and a baseline.
StudyAllOrNothingWitness ==
    \E s \in roots :
        /\ lastOp = Op("study raised", s, 0)
        /\ students[s].baseline /= None
        /\ Len(Times(s)) = 1
        /\ Len(models[students[s].model].w) = 2

\* C16: the snapshot depth is at most one.  A snapshot holds no snapshot;
\* a pop() that restored a snapshot leaves the Student without one, and a
\* pop() right after it changes nothing.
SnapshotHoldsNone ==
    /\ \A s \in Objects :
          students[s].parent /= None =>
              students[students[s].parent].parent = None
    /\ \A s \in roots :
          (lastOp.op = "pop" /\ lastOp.s = s /\ lastOp.arg /= None) =>
              students[s].parent = None

PopAfterPop ==
    \A s \in roots :
        (lastOp.op = "pop" /\ lastOp.s = s /\ lastOp.arg /= None /\ Pop(s)) =>
            UNCHANGED <<students, models, optimizers, datasets, lists, roots>>

SnapshotDepthAtMostOne == []SnapshotHoldsNone /\ [][PopAfterPop]_vars

\* A Student pushed twice holds a snapshot, and on its clone pop() has been
\* called twice: the first call restored the snapshot, the second found none.
SnapshotDepthAtMostOneWitness ==
    \E s \in roots : \E c \in roots \ {s} :
        /\ prevPush[s].set /\ students[s].parent /= None
        /\ lastOp = Op("pop", c, None)
        /\ phase[c].at = "drained"

\* C17: pop() does not alias the snapshot.  A snapshot a Student holds has
\* the value the Student had at the push(), no call changes the value of a
\* snapshot, and a pop() that restores from it, after any calls on other
\* Students that share it, gives the value at the push() and leaves the
\* snapshot with it.
SnapshotIsPushState ==
    \A s \in roots :
        students[s].parent /= None =>
            ValueIn(Heap, students[s].parent) = lastPush[s].value

PopRestoresPushState ==
    (lastOp.op = "pop" /\ lastOp.arg /= None) =>
        /\ Value(lastOp.s) = lastPush[lastOp.s].value
        /\ Value(lastOp.arg) = lastPush[lastOp.s].value

SnapshotsUnchanged ==
    \A s \in Objects : \A p \in Objects :
        p = students[s].parent => Value(p)' = Value(p)

PopDoesNotAlias ==
    /\ [](SnapshotIsPushState /\ PopRestoresPushState)
    /\ [][SnapshotsUnchanged]_vars

\* Two Students shared a snapshot; one was restored by pop() and has changed
\* since, and pop() has just restored the other.
PopDoesNotAliasWitness ==
    \E c \in roots : \E s \in roots \ {c} :
        /\ lastOp = Op("pop", c, lastOp.arg) /\ lastOp.arg /= None
        /\ lastPush[s].set /\ lastPush[s] = lastPush[c]
        /\ phase[s].at = "idle"
        /\ Value(s) /= lastPush[s].value
        /\ Value(c) = lastPush[c].value

\* C18: pop() replaces the contents of the four metric lists and keeps the
\* lists.  The list objects a Student holds are the same before and after
\* every call, after a pop() that restored a snapshot they hold what the
\* snapshot's lists hold, and they are never the lists of the snapshot.
ListsStay ==
    \A s \in roots :
        /\ students'[s].times = students[s].times
        /\ students'[s].grades = students[s].grades
        /\ students'[s].baseline_grades = students[s].baseline_grades
        /\ students'[s].relative_grades = students[s].relative_grades

PopCopiesContents ==
    \A s \in roots : \A p \in Objects :
        (lastOp' = [op |-> "pop", s |-> s, arg |-> p]) =>
            /\ lists'[students[s].times] = lists[students[p].times]
            /\ lists'[students[s].grades] = lists[students[p].grades]
            /\ lists'[students[s].baseline_grades] =
                  lists[students[p].baseline_grades]
            /\ lists'[students[s].relative_grades] =
                  lists[students[p].relative_grades]

ListsAreNotTheSnapshots ==
    \A s \in Objects :
        students[s].parent /= None =>
            Lists(s) \cap Lists(students[s].parent) = {}

PopKeepsListIdentity ==
    []ListsAreNotTheSnapshots /\ [][ListsStay /\ PopCopiesContents]_vars

\* study(), push(), study(), pop(): the list that was bound to times at
\* construction holds the one entry it held at the push().
PopKeepsListIdentityWitness ==
    \E s \in roots :
        /\ lastOp = Op("pop", s, lastOp.arg) /\ lastOp.arg /= None
        /\ phase[s] = [at |-> "popped", changed |-> TRUE]
        /\ students[s].times = 1
        /\ Len(lists[1]) = 1
        /\ lists[1] = Times(lastOp.arg)

\* C19: clone() never changes the original.  After a clone() call that
\* returns or raises, the original holds the parent and the baseline it
\* held and all its other fields are unchanged; a push() whose clone() raises
\* leaves the parent in place.
CloneLeavesOriginal ==
    \A s \in roots :
        /\ (lastOp'.op \in {"clone", "clone raised"} /\ lastOp'.s = s) =>
              /\ students'[s] = students[s]
              /\ Value(s)' = Value(s)
        /\ (lastOp'.op = "push raised" /\ lastOp'.s = s) =>
              students'[s].parent = students[s].parent

CloneNeverChangesOriginal == [][CloneLeavesOriginal]_vars

\* The last k entries of xs.
Suffix(xs, k) == IF k = 0 THEN <<>> ELSE SubSeq(xs, Len(xs) - k + 1, Len(xs))

Min(a, b) == IF a <= b THEN a ELSE b

\* C20: autocomplete() with n_ctx >= 1 calls the model's inference
\* n_generate times, the i-th time with the latest tokens, at most n_ctx of
\* them, of the prompt followed by the i-1 tokens sampled so far; it appends
\* the n_generate sampled tokens in order to the output list it was given;
\* it returns the decoded sampled tokens without the prompt; and it changes
\* no object of the Student.
CompletionAsClaimed ==
    completion.called =>
        LET in == completion.in
            out == completion.out
            n_ctx == IF in.n_ctx = Nothing THEN ModelNCtx ELSE in.n_ctx[1]
            prompt == IF in.prompt = Nothing THEN DatasetSlice(2 * n_ctx)
                      ELSE encode(in.prompt[1])
            generated == SubSeq(completion.ys, 1, in.n_generate)
        IN  /\ Len(out.inference) = in.n_generate
            /\ \A i \in 1 .. in.n_generate :
                  LET seen == prompt \o SubSeq(generated, 1, i - 1)
                  IN  /\ Len(out.inference[i]) <= n_ctx
                      /\ out.inference[i] =
                            Suffix(seen, Min(n_ctx, Len(seen)))
            /\ in.output /= Nothing =>
                  out.output = Some(in.output[1] \o generated)
            /\ in.output = Nothing => out.output = Nothing
            /\ out.returned = decode(generated)

AutocompleteLeavesStudent ==
    lastOp'.op = "autocomplete" =>
        UNCHANGED <<students, models, optimizers, datasets, lists>>

AutocompleteSamples ==
    []CompletionAsClaimed /\ [][AutocompleteLeavesStudent]_vars

\* autocomplete() on a Student that has studied, with a prompt of three
\* tokens, a context window of two, three tokens to generate and an output
\* list that held one token.
AutocompleteSamplesWitness ==
    /\ completion.called
    /\ lastOp.op = "autocomplete"
    /\ Times(lastOp.s) /= <<>>
    /\ completion.in.n_generate = 3
    /\ completion.in.n_ctx = Some(2)
    /\ completion.out.inference = <<<<97, 98>>, <<98, 98>>, <<98, 97>>>>
    /\ completion.out.output = Some(<<97, 98, 97, 97>>)
    /\ completion.out.returned = <<"b", "a", "a">>

====
